---- MODULE Spec2Model ----
(***************************************************************************)
(* Weather CLI (src/main.py): one invocation of main() as a state machine. *)
(* The program is sequential; each action is one statement group of main,  *)
(* get_weather, check_condition or send_email, and the environment (the    *)
(* weather provider, the SMTP relay) picks the outcome of each network     *)
(* step.                                                                   *)
(***************************************************************************)
EXTENDS Integers, Sequences, FiniteSets, TLC

VARIABLES
    pc,             \* position in main / get_weather / send_email
    command,        \* args.command
    args_city,      \* args.city, a string (sequence of characters)
    condition,      \* args.condition ("none" for forecast: no such attribute)
    email,          \* args.email (<<>> for forecast: no such attribute)
    api_key,        \* os.getenv('API_KEY')
    from_email,     \* os.getenv('EMAIL')
    email_password, \* os.getenv('EMAIL_PASSWORD')
    city,           \* get_weather's local `city` after strip()
    response,       \* the requests.Response of line 83
    weather_data,   \* main's weather_data (line 184)
    triggered,      \* main's triggered (line 193)
    exc,            \* the exception propagating to main's handlers
    httpGets,       \* number of requests.get calls issued
    checkCalls,     \* number of check_condition calls
    sendCalls,      \* number of send_email calls
    smtpLog,        \* SMTP steps attempted, in order, with their outcome
    conn,           \* the SMTP connection: "none", "open", "closed"
    sendLeft,       \* how send_email was left: "no", "returned", "raised"
    stdout,         \* lines printed to standard output
    stderr,         \* lines printed to standard error by print()
    log,            \* logger records
    exitStatus      \* process exit status, -1 while running

vars == <<pc, command, args_city, condition, email, api_key, from_email,
          email_password, city, response, weather_data, triggered, exc,
          httpGets, checkCalls, sendCalls, smtpLog, conn, sendLeft, stdout,
          stderr, log, exitStatus>>

\* Longest city / recipient string enumerated.
MaxLen == 2

\* line 109: temp > 30
HotThreshold == 30
\* line 111: temp < 0
ColdThreshold == 0
\* line 86: data['cod'] != 200
SuccessCod == 200

----------------------------------------------------------------------------
\* Strings are sequences of characters.

Whitespace == {" ", "\t"}
CityChars == {" ", "\t", "a"}
EmailChars == {"u", "@"}

Strings(chars, n) == UNION {[1..k -> chars] : k \in 0..n}

RECURSIVE lstrip(_)
lstrip(s) ==
    IF s = <<>> THEN s
    ELSE IF Head(s) \in Whitespace THEN lstrip(Tail(s)) ELSE s

RECURSIVE rstrip(_)
rstrip(s) ==
    IF s = <<>> THEN s
    ELSE IF s[Len(s)] \in Whitespace THEN rstrip(SubSeq(s, 1, Len(s) - 1)) ELSE s

\* Mutant: the city is tested as given, without strip().
strip_missing(s) == s

\* str.strip()
strip(s) == rstrip(lstrip(s))

\* '@' in args.email
Contains(s, ch) == \E i \in 1..Len(s) : s[i] = ch

\* Python truthiness of an os.getenv result: None and "" are falsy.
EnvValues == {"None", "", "set"}
Truthy(v) == v \notin {"None", ""}

\* Mutant: only the API key is required.
all_api_key_only(k, e, p) == Truthy(k)

\* all([api_key, from_email, email_password])
all_config(k, e, p) == Truthy(k) /\ Truthy(e) /\ Truthy(p)

\* Mutant: the recipient check is missing.
invalid_email_never(cmd, em) == FALSE

\* args.command == 'alert' and '@' not in args.email
invalid_email(cmd, em) == cmd = "alert" /\ ~Contains(em, "@")

----------------------------------------------------------------------------
\* The provider's answers.

Temps == {ColdThreshold - 1, ColdThreshold, HotThreshold, HotThreshold + 1}
Categories == {"Rain", "rain", "Clouds"}
Descriptions == {"light rain", "clear sky"}
Statuses == {200, 404}

NoMessage == "<absent>"
UnknownError == "Unknown error"

\* A JSON body: whether it parses, its 'cod', its 'message', and whether it
\* carries main.temp, weather[0].main, weather[0].description and name.
SuccessBodies ==
    [json : {TRUE}, hasCod : {TRUE}, cod : {SuccessCod}, message : {NoMessage},
     hasFields : {TRUE}, temp : Temps, main : Categories,
     description : Descriptions]

BlankBody ==
    [json |-> TRUE, hasCod |-> TRUE, cod |-> SuccessCod, message |-> NoMessage,
     hasFields |-> FALSE, temp |-> 0, main |-> "Clouds",
     description |-> "clear sky"]

OtherBodies ==
    {BlankBody,
     [BlankBody EXCEPT !.json = FALSE],
     [BlankBody EXCEPT !.hasCod = FALSE],
     [BlankBody EXCEPT !.cod = 404],
     [BlankBody EXCEPT !.cod = 404, !.message = "city not found"]}

Bodies == SuccessBodies \cup OtherBodies

Responses == [status : Statuses, body : Bodies]

NoResponse == [status |-> 0, body |-> BlankBody]
NoData == [BlankBody EXCEPT !.hasCod = FALSE]

\* str(HTTPError) as built by raise_for_status: "<status> Client Error: <reason> for url: ..."
HTTPErrorText(status) == IF status = 404 THEN "404 Client Error: Not Found" ELSE "Client Error"

\* An exception: its class as main's handlers see it, the format string that
\* built its message, and the text interpolated into it.
NoExc == [class |-> "none", text |-> "", detail |-> ""]
ValueError(text, detail) == [class |-> "ValueError", text |-> text, detail |-> detail]
OtherError(name) == [class |-> "Exception", text |-> name, detail |-> ""]

\* Mutant: raise_for_status never raises.
raises_for_status_never(status) == FALSE

\* response.raise_for_status(): HTTPError for a 4xx or 5xx status
raises_for_status(status) == status >= 400 /\ status < 600

\* Mutant: hot at >= 30.
check_condition_hot_inclusive(data, cond) ==
    \/ cond = "hot" /\ data.temp >= HotThreshold
    \/ cond = "cold" /\ data.temp < ColdThreshold
    \/ cond = "rain" /\ data.main = "Rain"

\* check_condition's first component (lines 109-116)
check_condition(data, cond) ==
    IF cond = "hot" /\ data.temp > HotThreshold THEN TRUE
    ELSE IF cond = "cold" /\ data.temp < ColdThreshold THEN TRUE
    ELSE IF cond = "rain" /\ data.main = "Rain" THEN TRUE
    ELSE FALSE

----------------------------------------------------------------------------
Init ==
    /\ pc = "load_config"
    /\ command \in {"forecast", "alert"}
    /\ args_city \in Strings(CityChars, MaxLen)
    /\ IF command = "alert"
         THEN condition \in {"hot", "cold", "rain"} /\ email \in Strings(EmailChars, MaxLen)
         ELSE condition = "none" /\ email = <<>>
    /\ api_key \in EnvValues
    /\ from_email \in EnvValues
    /\ email_password \in EnvValues
    /\ city = <<>>
    /\ response = NoResponse
    /\ weather_data = NoData
    /\ triggered = FALSE
    /\ exc = NoExc
    /\ httpGets = 0
    /\ checkCalls = 0
    /\ sendCalls = 0
    /\ smtpLog = <<>>
    /\ conn = "none"
    /\ sendLeft = "no"
    /\ stdout = <<>>
    /\ stderr = <<>>
    /\ log = <<>>
    /\ exitStatus = -1

----------------------------------------------------------------------------
\* Leaving the process: sys.exit(status), or main returning (status 0).
Exit(status) ==
    /\ pc' = "exited"
    /\ exitStatus' = status

\* An exception leaves the try body of main (line 183) towards its handlers.
Raise(e) ==
    /\ pc' = "main_except"
    /\ exc' = e

\* lines 170-176
LoadConfig ==
    /\ pc = "load_config"
    /\ IF ~all_config(api_key, from_email, email_password)
         THEN /\ log' = Append(log, "ERROR Missing environment variables")
              /\ Exit(1)
         ELSE /\ pc' = "validate_email"
              /\ UNCHANGED <<log, exitStatus>>
    /\ UNCHANGED <<command, args_city, condition, email, api_key, from_email,
                   email_password, city, response, weather_data, triggered, exc,
                   httpGets, checkCalls, sendCalls, smtpLog, conn, sendLeft,
                   stdout, stderr>>

\* lines 179-181
ValidateEmail ==
    /\ pc = "validate_email"
    /\ IF invalid_email(command, email)
         THEN /\ log' = Append(log, "ERROR Invalid email address provided.")
              /\ Exit(1)
         ELSE /\ pc' = "get_weather"
              /\ UNCHANGED <<log, exitStatus>>
    /\ UNCHANGED <<command, args_city, condition, email, api_key, from_email,
                   email_password, city, response, weather_data, triggered, exc,
                   httpGets, checkCalls, sendCalls, smtpLog, conn, sendLeft,
                   stdout, stderr>>

\* line 184 calling get_weather, lines 77-81
GetWeatherValidate ==
    /\ pc = "get_weather"
    /\ city' = strip(args_city)
    /\ IF city' = <<>>
         THEN Raise(ValueError("City name cannot be empty.", ""))
         ELSE pc' = "http_get" /\ UNCHANGED exc
    /\ UNCHANGED <<command, args_city, condition, email, api_key, from_email,
                   email_password, response, weather_data, triggered,
                   httpGets, checkCalls, sendCalls, smtpLog, conn, sendLeft,
                   stdout, stderr, log, exitStatus>>

\* The transport failures requests.get raises (all RequestException).
TransportErrors == {"ConnectionError", "Timeout"}

\* line 83, and lines 89-91 when the transport fails
HttpGet ==
    /\ pc = "http_get"
    /\ httpGets' = httpGets + 1
    /\ \/ \E r \in Responses :
            /\ response' = r
            /\ pc' = "raise_for_status"
            /\ UNCHANGED <<exc, log>>
       \/ \E e \in TransportErrors :
            /\ log' = Append(log, "ERROR API request failed")
            /\ Raise(ValueError("Failed to fetch weather for {city}: ", e))
            /\ UNCHANGED response
    /\ UNCHANGED <<command, args_city, condition, email, api_key, from_email,
                   email_password, city, weather_data, triggered,
                   checkCalls, sendCalls, smtpLog, conn, sendLeft,
                   stdout, stderr, exitStatus>>

\* line 84, and lines 89-91 when it raises HTTPError
RaiseForStatus ==
    /\ pc = "raise_for_status"
    /\ IF raises_for_status(response.status)
         THEN /\ log' = Append(log, "ERROR API request failed")
              /\ Raise(ValueError("Failed to fetch weather for {city}: ",
                                  HTTPErrorText(response.status)))
         ELSE /\ pc' = "json"
              /\ UNCHANGED <<exc, log>>
    /\ UNCHANGED <<command, args_city, condition, email, api_key, from_email,
                   email_password, city, response, weather_data, triggered,
                   httpGets, checkCalls, sendCalls, smtpLog, conn, sendLeft,
                   stdout, stderr, exitStatus>>

\* line 85. A body that is not JSON raises JSONDecodeError: a RequestException
\* in recent releases of requests (caught at line 89), a plain ValueError in
\* older ones (propagates unchanged).
ParseJson ==
    /\ pc = "json"
    /\ IF ~response.body.json
         THEN \/ /\ log' = Append(log, "ERROR API request failed")
                 /\ Raise(ValueError("Failed to fetch weather for {city}: ",
                                     "JSONDecodeError"))
              \/ /\ Raise(ValueError("JSONDecodeError", ""))
                 /\ UNCHANGED log
         ELSE /\ pc' = "check_cod"
              /\ UNCHANGED <<exc, log>>
    /\ UNCHANGED <<command, args_city, condition, email, api_key, from_email,
                   email_password, city, response, weather_data, triggered,
                   httpGets, checkCalls, sendCalls, smtpLog, conn, sendLeft,
                   stdout, stderr, exitStatus>>

\* Mutant: the provider's message is dropped from the error.
api_error_generic(data) == ValueError("City not found or API error: ", UnknownError)

\* line 87: data.get('message', 'Unknown error') in the error text
api_error(data) ==
    ValueError("City not found or API error: ",
               IF data.message = NoMessage THEN UnknownError ELSE data.message)

\* lines 86-88, and the assignment of line 184 when get_weather returns
CheckCod ==
    /\ pc = "check_cod"
    /\ LET data == response.body IN
       IF ~data.hasCod
         THEN Raise(OtherError("KeyError")) /\ UNCHANGED weather_data
         ELSE IF data.cod # SuccessCod
           THEN Raise(api_error(data)) /\ UNCHANGED weather_data
           ELSE /\ weather_data' = data
                /\ pc' = "dispatch"
                /\ UNCHANGED exc
    /\ UNCHANGED <<command, args_city, condition, email, api_key, from_email,
                   email_password, city, response, triggered,
                   httpGets, checkCalls, sendCalls, smtpLog, conn, sendLeft,
                   stdout, stderr, log, exitStatus>>

\* lines 186-190, then main returns
Forecast ==
    /\ pc = "dispatch"
    /\ command = "forecast"
    /\ IF ~weather_data.hasFields
         THEN /\ Raise(OtherError("KeyError"))
              /\ UNCHANGED <<stdout, log, exitStatus>>
         ELSE /\ log' = Append(log, "INFO Forecast")
              /\ stdout' = Append(stdout, "Weather in {city}: {description}, Temperature: {temp}")
              /\ Exit(0)
              /\ UNCHANGED exc
    /\ UNCHANGED <<command, args_city, condition, email, api_key, from_email,
                   email_password, city, response, weather_data, triggered,
                   httpGets, checkCalls, sendCalls, smtpLog, conn, sendLeft,
                   stderr>>

\* Mutant: the `return` of line 197 is missing, so the alert is sent anyway.
AlertNoReturn ==
    /\ pc = "dispatch"
    /\ command = "alert"
    /\ checkCalls' = checkCalls + 1
    /\ IF ~weather_data.hasFields
         THEN /\ Raise(OtherError("KeyError"))
              /\ UNCHANGED <<triggered, stdout, log, exitStatus, sendCalls>>
         ELSE /\ triggered' = check_condition(weather_data, condition)
              /\ IF ~triggered'
                   THEN /\ log' = Append(log, "INFO No alert")
                        /\ stdout' = Append(stdout, "No alert needed - condition not met.")
                   ELSE UNCHANGED <<stdout, log>>
              /\ sendCalls' = sendCalls + 1
              /\ pc' = "smtp_connect"
              /\ UNCHANGED <<exc, exitStatus>>
    /\ UNCHANGED <<command, args_city, condition, email, api_key, from_email,
                   email_password, city, response, weather_data,
                   httpGets, smtpLog, conn, sendLeft, stderr>>

\* lines 192-210: check_condition, the "no alert" return, or the call of send_email
Alert ==
    /\ pc = "dispatch"
    /\ command = "alert"
    /\ checkCalls' = checkCalls + 1
    /\ IF ~weather_data.hasFields
         THEN /\ Raise(OtherError("KeyError"))
              /\ UNCHANGED <<triggered, stdout, log, exitStatus, sendCalls>>
         ELSE /\ triggered' = check_condition(weather_data, condition)
              /\ IF ~triggered'
                   THEN /\ log' = Append(log, "INFO No alert")
                        /\ stdout' = Append(stdout, "No alert needed - condition not met.")
                        /\ Exit(0)
                        /\ UNCHANGED <<exc, sendCalls>>
                   ELSE /\ sendCalls' = sendCalls + 1
                        /\ pc' = "smtp_connect"
                        /\ UNCHANGED <<exc, stdout, log, exitStatus>>
    /\ UNCHANGED <<command, args_city, condition, email, api_key, from_email,
                   email_password, city, response, weather_data,
                   httpGets, smtpLog, conn, sendLeft, stderr>>

----------------------------------------------------------------------------
\* send_email (lines 132-146). smtplib raises SMTPException subclasses, caught
\* at line 144 and re-raised as ValueError; an OSError (name resolution,
\* refused connection, TLS handshake) is no SMTPException and propagates as
\* it is. SMTPServerDisconnected is the SMTPException smtplib raises after
\* closing the socket itself.
Outcomes(step) ==
    CASE step = "connect" -> {"ok", "SMTPException", "OSError"}
      [] step = "quit"    -> {"ok", "SMTPServerDisconnected"}
      [] OTHER            -> {"ok", "SMTPException", "SMTPServerDisconnected", "OSError"}

\* The connection after a step: smtplib.SMTP() opens it, quit() closes it, and
\* nothing in send_email closes it when a step in between raises.
ConnAfter(step, outcome, c) ==
    CASE step = "connect" -> IF outcome = "ok" THEN "open" ELSE "none"
      [] step = "quit" -> "closed"
      [] OTHER -> IF outcome = "SMTPServerDisconnected" THEN "closed" ELSE c

\* Leaving send_email by an exception: lines 144-146, or propagation.
SendRaises(outcome) ==
    /\ sendLeft' = "raised"
    /\ IF outcome = "OSError"
         THEN Raise(OtherError("OSError")) /\ UNCHANGED log
         ELSE /\ log' = Append(log, "ERROR Email sending failed")
              /\ Raise(ValueError("Failed to send email: ", outcome))

\* Mutant: the message is sent before the TLS upgrade and the login.
SmtpNextWrongOrder(step) ==
    CASE step = "connect" -> "sendmail"
      [] step = "sendmail" -> "starttls"
      [] step = "starttls" -> "login"
      [] OTHER -> "quit"

\* The statement after `step` in lines 138-142.
SmtpNext(step) ==
    CASE step = "connect" -> "starttls"
      [] step = "starttls" -> "login"
      [] step = "login" -> "sendmail"
      [] OTHER -> "quit"

\* One of lines 138-141: the step runs; on success control moves to the next line.
SmtpStep(step) ==
    /\ pc = "smtp_" \o step
    /\ \E outcome \in Outcomes(step) :
         /\ smtpLog' = Append(smtpLog, [step |-> step, ok |-> (outcome = "ok")])
         /\ conn' = ConnAfter(step, outcome, conn)
         /\ IF outcome = "ok"
              THEN /\ pc' = "smtp_" \o SmtpNext(step)
                   /\ UNCHANGED <<exc, log, sendLeft>>
              ELSE SendRaises(outcome)
    /\ UNCHANGED <<command, args_city, condition, email, api_key, from_email,
                   email_password, city, response, weather_data, triggered,
                   httpGets, checkCalls, sendCalls, stdout, stderr, exitStatus>>

\* line 138
SmtpConnect == SmtpStep("connect")
\* line 139
StartTls == SmtpStep("starttls")
\* line 140
Login == SmtpStep("login")
\* line 141
Sendmail == SmtpStep("sendmail")

\* lines 142-143, then send_email returns to line 211
Quit ==
    /\ pc = "smtp_quit"
    /\ \E outcome \in Outcomes("quit") :
         /\ smtpLog' = Append(smtpLog, [step |-> "quit", ok |-> (outcome = "ok")])
         /\ conn' = ConnAfter("quit", outcome, conn)
         /\ IF outcome = "ok"
              THEN /\ log' = Append(log, "INFO Email sent")
                   /\ sendLeft' = "returned"
                   /\ pc' = "confirm"
                   /\ UNCHANGED exc
              ELSE SendRaises(outcome)
    /\ UNCHANGED <<command, args_city, condition, email, api_key, from_email,
                   email_password, city, response, weather_data, triggered,
                   httpGets, checkCalls, sendCalls, stdout, stderr, exitStatus>>

\* line 211, then main returns
Confirm ==
    /\ pc = "confirm"
    /\ stdout' = Append(stdout, "Alert sent to {email}!")
    /\ Exit(0)
    /\ UNCHANGED <<command, args_city, condition, email, api_key, from_email,
                   email_password, city, response, weather_data, triggered, exc,
                   httpGets, checkCalls, sendCalls, smtpLog, conn, sendLeft,
                   stderr, log>>

\* Mutant: the generic handler reports the error and lets main return.
MainExceptGenericReturns ==
    /\ pc = "main_except"
    /\ IF exc.class = "ValueError"
         THEN /\ log' = Append(log, "ERROR {e}")
              /\ stderr' = Append(stderr, "Error: {e}")
              /\ Exit(1)
         ELSE /\ log' = Append(log, "ERROR Unexpected error: {e}")
              /\ stderr' = Append(stderr, "Unexpected error: {e}")
              /\ Exit(0)
    /\ UNCHANGED <<command, args_city, condition, email, api_key, from_email,
                   email_password, city, response, weather_data, triggered, exc,
                   httpGets, checkCalls, sendCalls, smtpLog, conn, sendLeft,
                   stdout>>

\* lines 213-220
MainExcept ==
    /\ pc = "main_except"
    /\ IF exc.class = "ValueError"
         THEN /\ log' = Append(log, "ERROR {e}")
              /\ stderr' = Append(stderr, "Error: {e}")
         ELSE /\ log' = Append(log, "ERROR Unexpected error: {e}")
              /\ stderr' = Append(stderr, "Unexpected error: {e}")
    /\ Exit(1)
    /\ UNCHANGED <<command, args_city, condition, email, api_key, from_email,
                   email_password, city, response, weather_data, triggered, exc,
                   httpGets, checkCalls, sendCalls, smtpLog, conn, sendLeft,
                   stdout>>

Next ==
    \/ LoadConfig
    \/ ValidateEmail
    \/ GetWeatherValidate
    \/ HttpGet
    \/ RaiseForStatus
    \/ ParseJson
    \/ CheckCod
    \/ Forecast
    \/ Alert
    \/ SmtpConnect
    \/ StartTls
    \/ Login
    \/ Sendmail
    \/ Quit
    \/ Confirm
    \/ MainExcept

Spec == Init /\ [][Next]_vars

----------------------------------------------------------------------------
\* Vocabulary of the properties, stated on the inputs and the observable
\* effects rather than on the program's own tests.

Missing(v) == v = "None" \/ v = ""
ConfigMissing == Missing(api_key) \/ Missing(from_email) \/ Missing(email_password)
HasAt(s) == \E i \in DOMAIN s : s[i] = "@"
RecipientOK == command = "forecast" \/ HasAt(email)
AllBlank(s) == \A i \in DOMAIN s : s[i] = " " \/ s[i] = "\t"
NoNetwork == httpGets = 0 /\ smtpLog = <<>> /\ conn = "none" /\ sendCalls = 0
InFetch == pc \in {"get_weather", "http_get", "raise_for_status", "json", "check_cod"}
BeforeFetch == pc \in {"load_config", "validate_email"}
Exited == pc = "exited"
ConfirmLine == "Alert sent to {email}!"
NoAlertLine == "No alert needed - condition not met."
Printed(line) == \E i \in DOMAIN stdout : stdout[i] = line

\* C1: with API_KEY, EMAIL or EMAIL_PASSWORD missing or empty, the process
\* goes from the configuration check straight to exit status 1 and performs
\* no network operation (no HTTP GET, no SMTP step).
C1_MissingConfigExits1NoNetwork ==
    ConfigMissing =>
        /\ NoNetwork
        /\ pc \in {"load_config", "exited"}
        /\ Exited => exitStatus = 1

C1_Witness ==
    /\ Exited /\ exitStatus = 1
    /\ ~Missing(api_key) /\ Missing(email_password)
    /\ command = "alert" /\ HasAt(email) /\ ~AllBlank(args_city)

\* C2: for alert with the configuration complete, a recipient without '@'
\* ends the process with status 1 before the HTTP GET and any SMTP step; the
\* forecast subcommand is never rejected for its (absent) recipient.
C2_BadRecipientExits1NoNetwork ==
    /\ (command = "alert" /\ ~ConfigMissing /\ ~HasAt(email)) =>
          /\ NoNetwork
          /\ pc \in {"load_config", "validate_email", "exited"}
          /\ Exited => exitStatus = 1
    /\ command = "forecast" =>
          \A i \in DOMAIN log : log[i] # "ERROR Invalid email address provided."
    /\ (command = "forecast" /\ ~ConfigMissing /\ ~AllBlank(args_city) /\ Exited) =>
          httpGets = 1

C2_Witness ==
    /\ command = "alert" /\ ~ConfigMissing /\ ~HasAt(email) /\ Len(email) > 0
    /\ Exited /\ exitStatus = 1
    /\ ~AllBlank(args_city)

\* C3: check_condition returns triggered = TRUE exactly when (hot and t > 30)
\* or (cold and t < 0) or (rain and category = "Rain"), whatever the
\* description is.
C3_TriggerRule ==
    (checkCalls = 1 /\ weather_data.hasFields) =>
        (triggered <=>
            \/ condition = "hot" /\ weather_data.temp > 30
            \/ condition = "cold" /\ weather_data.temp < 0
            \/ condition = "rain" /\ weather_data.main = "Rain")

C3_Witness ==
    /\ checkCalls = 1 /\ weather_data.hasFields
    /\ condition = "hot" /\ weather_data.temp = 30 /\ ~triggered
    /\ weather_data.main = "Rain"

\* C4: send_email is called once when the subcommand is alert, the fetch
\* returned and the condition evaluated to triggered, and never otherwise;
\* a condition that is not met prints the "no alert" line instead.
C4_NotifierOnceIffTriggered ==
    /\ sendCalls = (IF command = "alert" /\ weather_data # NoData /\ triggered
                    THEN 1 ELSE 0)
    /\ (checkCalls = 1 /\ weather_data.hasFields /\ ~triggered) =>
          /\ stdout = <<NoAlertLine>>
          /\ smtpLog = <<>>
    /\ (command = "alert" /\ Exited /\ exitStatus = 0 /\ weather_data.hasFields) =>
          LET t == weather_data.temp IN
          sendCalls = (IF \/ condition = "hot" /\ t > 30
                          \/ condition = "cold" /\ t < 0
                          \/ condition = "rain" /\ weather_data.main = "Rain"
                       THEN 1 ELSE 0)

C4_Witness ==
    /\ Exited /\ exitStatus = 0 /\ command = "alert"
    /\ sendCalls = 1 /\ triggered /\ Printed(ConfirmLine)

\* C5: when the fetch fails (blank city, transport failure, provider
\* non-success, unreadable body) no later step runs: no check_condition, no
\* send_email, nothing on standard output, one error line on standard error,
\* exit status 1.
FetchFailureCause ==
    \/ AllBlank(args_city)
    \/ httpGets = 1 /\ response = NoResponse
    \/ /\ response # NoResponse
       /\ \/ response.status >= 400
          \/ ~response.body.json
          \/ ~response.body.hasCod
          \/ response.body.cod # 200

C5_FetchFailureStopsEverything ==
    (FetchFailureCause /\ ~BeforeFetch /\ ~InFetch /\ ~ConfigMissing /\ RecipientOK) =>
        /\ pc \in {"main_except", "exited"}
        /\ checkCalls = 0 /\ sendCalls = 0 /\ smtpLog = <<>>
        /\ stdout = <<>>
        /\ weather_data = NoData
        /\ Exited => (exitStatus = 1 /\ Len(stderr) = 1)

C5_Witness ==
    /\ Exited /\ exitStatus = 1 /\ command = "alert"
    /\ response # NoResponse /\ response.status = 404
    /\ response.body.hasFields /\ response.body.temp > 30 /\ condition = "hot"
    /\ stderr = <<"Error: {e}">>

\* C6 as claimed: status 0 exactly when the configuration is complete, the
\* recipient contains '@', the fetch succeeded, and the subcommand is
\* forecast, or the condition was not met, or the send succeeded.
ConditionNotMet == checkCalls = 1 /\ weather_data.hasFields /\ ~triggered
C7_SessionAlwaysClosed ==
    (sendLeft # "no" /\ \E i \in DOMAIN smtpLog : smtpLog[i].step = "connect" /\ smtpLog[i].ok) =>
        conn = "closed"

\* C8: a provider non-success, signalled by the HTTP status or by the body's
\* 'cod', fails get_weather with the provider's message in the error text
\* when the body carries one, and with the generic text otherwise.
ProviderNonSuccess ==
    /\ response # NoResponse
    /\ response.body.json /\ response.body.hasCod
    /\ response.status >= 400 \/ response.body.cod # 200
C8_ProviderMessageSurfaced ==
    (ProviderNonSuccess /\ ~InFetch) =>
        /\ exc.class = "ValueError"
        /\ response.body.message # NoMessage => exc.detail = response.body.message

\* C9: a blank city fails with the validation error and no HTTP GET is ever
\* issued; any other city issues exactly one GET per call, never a second.
C9_BlankCityNoRequest ==
    /\ httpGets <= 1
    /\ AllBlank(args_city) =>
          /\ httpGets = 0
          /\ pc \notin {"http_get", "raise_for_status", "json", "check_cod", "dispatch"}
          /\ pc = "main_except" =>
                exc = ValueError("City name cannot be empty.", "")
    /\ (~AllBlank(args_city) /\ ~ConfigMissing /\ RecipientOK) =>
          httpGets = (IF BeforeFetch \/ pc \in {"get_weather", "http_get"} THEN 0 ELSE 1)

C9_Witness ==
    /\ AllBlank(args_city) /\ Len(args_city) > 0
    /\ pc = "main_except" /\ httpGets = 0

\* C10: the SMTP steps of one send_email call are a prefix of connect,
\* starttls, login, sendmail, quit, each step running only after the one
\* before it succeeded: no step repeats and no failed step is retried.
C10_Order == <<"connect", "starttls", "login", "sendmail", "quit">>
C10_SmtpOrder ==
    /\ Len(smtpLog) <= Len(C10_Order)
    /\ \A i \in DOMAIN smtpLog :
          /\ smtpLog[i].step = C10_Order[i]
          /\ i < Len(smtpLog) => smtpLog[i].ok

C10_Witness ==
    /\ Len(smtpLog) = 5 /\ \A i \in DOMAIN smtpLog : smtpLog[i].ok
    /\ sendLeft = "returned"

====
